---- MODULE Spec2Model ----
(***************************************************************************)
(* A model of the incremental multipart/form-data parser                   *)
(* sansio_multipart.parser.MultipartParser.                                *)
(*                                                                         *)
(* Bytes are modelled as one-symbol strings and byte strings as sequences  *)
(* of symbols.  "CR" and "LF" are the two line-terminator bytes, "SP" is   *)
(* the space byte.  The header names Content-Disposition, Content-Length   *)
(* and Content-Type are each written as one symbol ("D", "L", "T"): the    *)
(* parser treats the bytes of a header line alike until the line is        *)
(* complete, so a chunk cut inside a header name behaves as a cut at any   *)
(* other place inside the line, which the model does exercise.  A header   *)
(* name counts as one byte in the length of its line.                      *)
(*                                                                         *)
(* An optional value (Python None or a value) is a sequence of length 0    *)
(* or 1.                                                                   *)
(***************************************************************************)
EXTENDS Integers, Sequences, FiniteSets, TLC

\* ------------------------------------------------------------------------
\* Bounds of the model
\* ------------------------------------------------------------------------

\* largest number of parts in a generated message
MaxParts == 2

\* largest number of feed calls in one run
MaxFeeds == 3

\* ------------------------------------------------------------------------
\* Bytes and byte strings
\* ------------------------------------------------------------------------

CR == "CR"
LF == "LF"
SP == "SP"
CRLF == <<CR, LF>>

None == <<>>
Some(x) == <<x>>

\* The boundary handed to the constructor (scenarios S1..S7 use "X").
boundary == <<"X">>

separator == <<"-", "-">> \o boundary

terminator == <<"-", "-">> \o boundary \o <<"-", "-">>

separator_len == Len(separator)

Whitespace == {SP, CR, LF}

\* the header names "Content-Disposition", "Content-Length", "Content-Type"
CONTENT_DISPOSITION == <<"D">>
CONTENT_LENGTH == <<"L">>
CONTENT_TYPE == <<"T">>

Digits == {"0", "1", "2", "3", "4", "5", "6", "7", "8", "9"}

DigitVal(d) ==
  CASE d = "0" -> 0 [] d = "1" -> 1 [] d = "2" -> 2 [] d = "3" -> 3
    [] d = "4" -> 4 [] d = "5" -> 5 [] d = "6" -> 6 [] d = "7" -> 7
    [] d = "8" -> 8 [] d = "9" -> 9

RECURSIVE Concat(_)
\* b"".join(seq of byte strings)
Concat(ss) == IF ss = <<>> THEN <<>> ELSE Head(ss) \o Concat(Tail(ss))

RECURSIVE StripLeft(_)
StripLeft(s) ==
  IF s # <<>> /\ Head(s) \in Whitespace THEN StripLeft(Tail(s)) ELSE s

RECURSIVE StripRight(_)
StripRight(s) ==
  IF s # <<>> /\ s[Len(s)] \in Whitespace
  THEN StripRight(SubSeq(s, 1, Len(s) - 1)) ELSE s

\* str.strip()
Strip(s) == StripLeft(StripRight(s))

\* index of the first occurrence of byte c in s, 0 when there is none
IndexOf(s, c) ==
  IF \E i \in 1..Len(s) : s[i] = c
  THEN CHOOSE i \in 1..Len(s) : s[i] = c /\ \A j \in 1..(i - 1) : s[j] # c
  ELSE 0

\* ------------------------------------------------------------------------
\* Line splitting
\* ------------------------------------------------------------------------

\* index of the last byte of the first line of s (bytes.splitlines: a line
\* ends after LF, after CR LF, or after a CR that no LF follows)
LineEnd(s) ==
  IF \E i \in 1..Len(s) : s[i] \in {CR, LF}
  THEN LET j == CHOOSE i \in 1..Len(s) :
                  s[i] \in {CR, LF} /\ \A k \in 1..(i - 1) : s[k] \notin {CR, LF}
       IN IF s[j] = CR /\ j < Len(s) /\ s[j + 1] = LF THEN j + 1 ELSE j
  ELSE Len(s)

RECURSIVE Splitlines(_)
\* chunk.splitlines(True): the lines of s, line terminators kept
Splitlines(s) ==
  IF s = <<>> THEN <<>>
  ELSE LET e == LineEnd(s)
       IN <<SubSeq(s, 1, e)>> \o Splitlines(SubSeq(s, e + 1, Len(s)))

EndsWith(s, t) ==
  Len(s) >= Len(t) /\ SubSeq(s, Len(s) - Len(t) + 1, Len(s)) = t

\* _separate_newlines without the branch for a line that ends with CR
SeparateNewlinesNoCR(line) ==
  IF EndsWith(line, CRLF)
  THEN [l |-> SubSeq(line, 1, Len(line) - 2), nl |-> CRLF]
  ELSE IF EndsWith(line, <<LF>>)
  THEN [l |-> SubSeq(line, 1, Len(line) - 1), nl |-> <<LF>>]
  ELSE [l |-> line, nl |-> <<>>]

\* one step of _separate_newlines: a raw line as (line, line_ending)
SeparateNewlines(line) ==
  IF EndsWith(line, CRLF)
  THEN [l |-> SubSeq(line, 1, Len(line) - 2), nl |-> CRLF]
  ELSE IF EndsWith(line, <<LF>>)
  THEN [l |-> SubSeq(line, 1, Len(line) - 1), nl |-> <<LF>>]
  ELSE IF EndsWith(line, <<CR>>)
  THEN [l |-> SubSeq(line, 1, Len(line) - 1), nl |-> <<CR>>]
  ELSE [l |-> line, nl |-> <<>>]

\* _buffer_chunk applied to the unread rest of the line iterator
JoinLines(lines) == Concat(lines)

\* ------------------------------------------------------------------------
\* Events and parts
\* ------------------------------------------------------------------------

\* Every event is a record of the same shape.  "part" is the number of
\* header blocks the parser had closed when the event was built: for a
\* Part the index of that part, for a PartData the part it belongs to.

\* Events.NEED_DATA
NEED_DATA == [type |-> "NEED_DATA", headerlist |-> <<>>, raw |-> <<>>,
              size |-> 0, part |-> 0]

\* Events.FINISHED
FINISHED == [type |-> "FINISHED", headerlist |-> <<>>, raw |-> <<>>,
             size |-> 0, part |-> 0]

\* the Part event of a closed header block: the part and its attributes
PartEvent(part, k) ==
  [type |-> "Part", headerlist |-> part.headerlist, raw |-> <<>>,
   size |-> 0, part |-> k, disposition |-> part.disposition,
   name |-> part.name, filename |-> part.filename,
   content_type |-> part.content_type, charset |-> part.charset]

\* PartData(raw=part_data_buffer, size=len(part_data_buffer))
PartData(raw, k) ==
  [type |-> "PartData", headerlist |-> <<>>, raw |-> raw,
   size |-> Len(raw), part |-> k]

\* multipart.py: PartData(raw=part_data_buffer, length=len(part_data_buffer))
PartDataLength(raw, k) ==
  [type |-> "PartData", headerlist |-> <<>>, raw |-> raw,
   length |-> Len(raw), part |-> k]

\* the parser's charset, the default of MultipartParser.__init__
latin1 == <<"latin1">>

\* Part(charset): a part with no header yet.  A Part is an object: id tells
\* which one it is, the n-th that the parser has constructed having id n
\* (0 before the parser has numbered it).
Part ==
  [headerlist |-> <<>>, disposition |-> None, name |-> None,
   filename |-> None, content_type |-> None, charset |-> latin1, id |-> 0]

\* wsgiref Headers.get(name): the value of the first header called name
HeadersGet(headerlist, name) ==
  IF \E i \in 1..Len(headerlist) : headerlist[i][1] = name
  THEN LET i == CHOOSE k \in 1..Len(headerlist) :
                  headerlist[k][1] = name
                  /\ \A j \in 1..(k - 1) : headerlist[j][1] # name
       IN Some(headerlist[i][2])
  ELSE None

\* int(s) succeeds: decimal digits after an optional minus sign
IsInt(s) ==
  LET d == IF s # <<>> /\ Head(s) = "-" THEN Tail(s) ELSE s
  IN d # <<>> /\ \A i \in 1..Len(d) : d[i] \in Digits

RECURSIVE DecimalValue(_)
DecimalValue(d) ==
  IF d = <<>> THEN 0
  ELSE 10 * DecimalValue(SubSeq(d, 1, Len(d) - 1)) + DigitVal(d[Len(d)])

\* int(s)
ParseInt(s) ==
  IF Head(s) = "-" THEN 0 - DecimalValue(Tail(s)) ELSE DecimalValue(s)

\* ------------------------------------------------------------------------
\* Header values (multipart/utils.py).  The option keys name, filename,
\* charset and boundary and the content type multipart/form-data are each
\* written as one symbol, like the header names.  "DQ" is the double quote,
\* "BS" the backslash.  "F", "NAME", "FILENAME" and "MULTIPART" are upper
\* case: lower() maps them to "f", "name", "filename" and
\* "multipart/form-data".  The header values of the model hold no white
\* space but the space.
\* ------------------------------------------------------------------------

DQ == "DQ"
BS == "BS"

NAME == <<"name">>
FILENAME == <<"filename">>
CHARSET == <<"charset">>
BOUNDARY == <<"boundary">>

\* _special: the bytes ()<>@,;:"\/[]?={} space and tab
Special ==
  {"(", ")", "<", ">", "@", ",", ";", ":", DQ, BS, "/", "[", "]", "?", "=",
   "{", "}", SP, "TAB"}

\* \s of a regular expression, among the bytes of a header value
RegexSpace == {SP}

\* str.lower() of one byte
LowerByte(c) ==
  IF c = "F" THEN "f"
  ELSE IF c = "NAME" THEN "name"
  ELSE IF c = "FILENAME" THEN "filename"
  ELSE IF c = "MULTIPART" THEN "multipart/form-data"
  ELSE c

\* str.lower()
Lower(s) == [i \in 1..Len(s) |-> LowerByte(s[i])]

\* the first index from i on where s has a byte outside set, Len(s) + 1
\* when there is none: the end of a greedy run of bytes of set
RECURSIVE RunEnd(_, _, _)
RunEnd(s, i, set) ==
  IF i <= Len(s) /\ s[i] \in set THEN RunEnd(s, i + 1, set) ELSE i

\* the bytes of s that are not special, as a set
NonSpecial(s) == {s[i] : i \in 1..Len(s)} \ Special

\* "(?:\\.|[^"])*" from index i, the byte after the opening quote: the
\* index of the closing quote the backtracking search settles on, 0 when
\* the quoted string does not match
RECURSIVE QuotedEnd(_, _)
QuotedEnd(s, i) ==
  IF i > Len(s) THEN 0
  ELSE LET escaped == IF s[i] = BS /\ i + 1 <= Len(s)
                      THEN QuotedEnd(s, i + 2) ELSE 0
           plain == IF s[i] # DQ THEN QuotedEnd(s, i + 1) ELSE 0
       IN IF escaped # 0 THEN escaped
          ELSE IF plain # 0 THEN plain
          ELSE IF s[i] = DQ THEN i
          ELSE 0

\* no match of _option
NoMatch == [ok |-> FALSE, key |-> <<>>, value |-> <<>>, end |-> 0]

\* (value) of _option from index v0 of tail: a run of bytes that are not
\* special, or else a quoted string; end is the index after the match
MatchValue(tail, key, v0) ==
  LET v1 == RunEnd(tail, v0, NonSpecial(tail))
      q == IF v0 <= Len(tail) /\ tail[v0] = DQ
           THEN QuotedEnd(tail, v0 + 1) ELSE 0
  IN IF v1 > v0
     THEN [ok |-> TRUE, key |-> key, value |-> SubSeq(tail, v0, v1 - 1),
           end |-> v1]
     ELSE IF q # 0
     THEN [ok |-> TRUE, key |-> key, value |-> SubSeq(tail, v0, q),
           end |-> q + 1]
     ELSE NoMatch

\* =\s*(value) of _option from index e0 of tail
MatchEquals(tail, key, e0) ==
  IF e0 > Len(tail) \/ tail[e0] # "=" THEN NoMatch
  ELSE MatchValue(tail, key, RunEnd(tail, e0 + 1, RegexSpace))

\* ([^special]+)\s*=\s*(value) of _option, the key at k0..k1 - 1 of tail
MatchKey(tail, k0, k1) ==
  IF k1 = k0 THEN NoMatch
  ELSE MatchEquals(tail, SubSeq(tail, k0, k1 - 1),
                   RunEnd(tail, k1, RegexSpace))

\* the key of _option from index k0 of tail on
MatchKeyFrom(tail, k0) ==
  MatchKey(tail, k0, RunEnd(tail, k0, NonSpecial(tail)))

\* _option after its "(?:;|^)": \s*([^special]+)\s*=\s*(value) from index
\* j of tail
MatchKeyValue(tail, j) == MatchKeyFrom(tail, RunEnd(tail, j, RegexSpace))

\* the first of two alternatives that matches
FirstMatch(first, second) == IF first.ok THEN first ELSE second

\* _re_option matched at index i of tail: after a ";", or at the start
MatchOption(tail, i) ==
  FirstMatch(IF tail[i] = ";" THEN MatchKeyValue(tail, i + 1) ELSE NoMatch,
             IF i = 1 THEN MatchKeyValue(tail, 1) ELSE NoMatch)

\* str.replace(old, new), old of two bytes
RECURSIVE Replace(_, _, _)
Replace(s, old, new) ==
  IF Len(s) < 2 THEN s
  ELSE IF SubSeq(s, 1, 2) = old
  THEN new \o Replace(SubSeq(s, 3, Len(s)), old, new)
  ELSE <<Head(s)>> \o Replace(Tail(s), old, new)

\* val.split("\\")[-1]
RECURSIVE AfterLastBackslash(_)
AfterLastBackslash(s) ==
  IF BS \in {s[i] : i \in 1..Len(s)}
  THEN AfterLastBackslash(SubSeq(s, IndexOf(s, BS) + 1, Len(s)))
  ELSE s

\* val.replace("\\\\", "\\").replace('\\"', '"')
Unescape(s) == Replace(Replace(s, <<BS, BS>>, <<BS>>), <<BS, DQ>>, <<DQ>>)

\* header_unquote(val, filename): the flag is not read
HeaderUnquote(val, filename) ==
  IF Head(val) = DQ /\ val[Len(val)] = DQ
  THEN LET v == SubSeq(val, 2, Len(val) - 1)
           path == \/ (Len(v) >= 3 /\ SubSeq(v, 2, 3) = <<":", BS>>)
                   \/ (Len(v) >= 2 /\ SubSeq(v, 1, 2) = <<BS, BS>>)
       IN Unescape(IF path THEN AfterLastBackslash(v) ELSE v)
  ELSE val

\* dict: a function from keys to values; d[k] = v
DictSet(d, k, v) ==
  [x \in (DOMAIN d) \cup {k} |-> IF x = k THEN v ELSE d[x]]

\* dict.get(k): None or the value
DictGet(d, k) == IF k \in DOMAIN d THEN Some(d[k]) ELSE None

RECURSIVE OptionsFrom(_, _, _)
\* one step of the loop over _re_option.finditer(tail): match is the
\* outcome of matching at index i
OptionsStep(tail, i, options, match) ==
  IF match.ok
  THEN OptionsFrom(tail, match.end,
         DictSet(options, Lower(match.key),
                 HeaderUnquote(match.value, Lower(match.key) = FILENAME)))
  ELSE OptionsFrom(tail, i + 1, options)

\* the loop over _re_option.finditer(tail) from index i on
OptionsFrom(tail, i, options) ==
  IF i > Len(tail) THEN options
  ELSE OptionsStep(tail, i, options, MatchOption(tail, i))

\* parse_options_header(header)
ParseOptionsHeader(header) ==
  IF IndexOf(header, ";") = 0
  THEN [content_type |-> Strip(Lower(header)), options |-> <<>>]
  ELSE LET c == IndexOf(header, ";")
       IN [content_type |-> SubSeq(header, 1, c - 1),
           options |-> OptionsFrom(SubSeq(header, c + 1, Len(header)), 1,
                                   <<>>)]

\* ------------------------------------------------------------------------
\* The form adapter (multipart/wsgi_form_parser.py)
\* ------------------------------------------------------------------------

\* the parameters of MultipartParser.__init__ after self
ParserParameters == <<"boundary", "content_length", "charset">>

\* MultipartParser(*args, **kwargs): the error, if any, of binding the
\* arguments to the parameters, of which the first has no default
BindArguments(args, kwargs) ==
  IF \/ Len(args) > Len(ParserParameters)
     \/ \E k \in kwargs : \A i \in 1..Len(ParserParameters) :
           ParserParameters[i] # k
     \/ \E i \in 1..Len(args) : ParserParameters[i] \in kwargs
     \/ (args = <<>> /\ "boundary" \notin kwargs)
  THEN "TypeError" ELSE "none"

\* the default of kwargs.get("mem_limit", 2 ** 20)
mem_limit == 1048576

\* the bytes that environ["wsgi.input"] holds: a=b
wsgi_input == <<"a", "=", "b">>

\* parse_qs(data, keep_blank_values=True) for data of one field, as the
\* pairs that the loop over data.items() stores in forms
ParseQs(data) ==
  IF IndexOf(data, "=") = 0 THEN <<>>
  ELSE <<<<SubSeq(data, 1, IndexOf(data, "=") - 1),
           SubSeq(data, IndexOf(data, "=") + 1, Len(data))>>>>

\* str.upper() of a request method
Upper(method) == IF method = "post" THEN "POST" ELSE method

\* parse_form_data(environ, strict=strict): the error raised if any, and
\* the forms and files returned otherwise.  A new parser has no event
\* queued, so the loop over MultipartParser(...) stores nothing.
ParseFormData(environ, strict) ==
  LET method == IF environ.REQUEST_METHOD = None THEN "GET"
                ELSE Upper(environ.REQUEST_METHOD[1])
      content_length == IF environ.CONTENT_LENGTH = None THEN <<"-", "1">>
                        ELSE environ.CONTENT_LENGTH[1]
      parsed == ParseOptionsHeader(environ.CONTENT_TYPE)
      content_type == parsed.content_type
      charset == DictGet(parsed.options, CHARSET)
      boundary_option == DictGet(parsed.options, BOUNDARY)
      urlencoded == content_type \in {<<"application/x-www-form-urlencoded">>,
                                      <<"application/x-url-encoded">>}
      raised ==
        IF method \notin {"POST", "PUT"} THEN "MultipartError"
        ELSE IF ~IsInt(content_length) THEN "ValueError"
        ELSE IF environ.CONTENT_TYPE = <<>> THEN "MultipartError"
        ELSE IF content_type = <<"multipart/form-data">>
        THEN IF boundary_option = None \/ boundary_option[1] = <<>>
             THEN "MultipartError"
             ELSE BindArguments(<<wsgi_input, boundary_option[1],
                                  content_length>>,
                                {"charset"})
        ELSE IF urlencoded
        THEN IF \/ ParseInt(content_length) > mem_limit
                \/ Len(wsgi_input) > mem_limit
             THEN "MultipartError" ELSE "none"
        ELSE "MultipartError"
  IN [exc |-> IF raised = "MultipartError" /\ ~strict THEN "none" ELSE raised,
      forms |-> IF raised = "none" /\ urlencoded THEN ParseQs(wsgi_input)
                ELSE <<>>,
      files |-> <<>>]

\* ------------------------------------------------------------------------
\* The parser.  p is the record of the parser's fields:
\*   state, buffer, last_partial_line, current_part, expected_part_size,
\*   current_part_size, and closed (how many header blocks were closed).
\* current_part refers to a Part object, and so does each Part event of the
\* queue: objects.made[n] is the Part object of id n as it is now, and
\* objects.queued[k] the id of the object that the k-th Part event is.
\* ------------------------------------------------------------------------

\* The repository holds the parser twice: the class MultipartParser of
\* sansio_multipart/parser.py and the one of multipart.py.  The field
\* source of p tells which of them the caller has constructed; where the
\* two differ the model has a definition for each.
SANSIO_PARSER_PY == "sansio_multipart/parser.py"
MULTIPART_PY == "multipart.py"

\* MultipartParser.__init__
NewParser ==
  [state |-> "BUILDING_HEADERS", buffer |-> <<>>, last_partial_line |-> None,
   current_part |-> None, expected_part_size |-> None,
   current_part_size |-> 0, closed |-> 0, source |-> SANSIO_PARSER_PY,
   objects |-> [made |-> <<>>, queued |-> <<>>]]

\* multipart.py, MultipartParser.__init__
NewParserOfMultipartPy == [NewParser EXCEPT !.source = MULTIPART_PY]

\* _construct_part at the blank line: the attributes of part set from its
\* parsed Content-Disposition and Content-Type
ParsedPart(part, disposition, type) ==
  [part EXCEPT
     !.disposition = Some(disposition.content_type),
     !.name = DictGet(disposition.options, NAME),
     !.filename = DictGet(disposition.options, FILENAME),
     !.content_type = Some(type.content_type),
     !.charset = IF CHARSET \in DOMAIN type.options
                    /\ type.options[CHARSET] # <<>>
                 THEN type.options[CHARSET] ELSE @]

\* an assignment to attributes of the Part object part.id, which is part
\* afterwards: seen through every reference to that object
Written(p, part) ==
  [p EXCEPT !.objects.made =
     [n \in 1..(IF part.id > Len(@) THEN part.id ELSE Len(@)) |->
        IF n = part.id THEN part ELSE @[n]]]

\* _parse_part, "self.current_part or Part(charset=self.charset)"
CurrentPartOrNew(p) ==
  IF p.current_part # None THEN p.current_part[1]
  ELSE [Part EXCEPT !.id = Len(p.objects.made) + 1]

\* the parser going on with current_part as it is
KeepCurrentPart(p) == p

\* _construct_part, "self.current_part = None"
ForgetCurrentPart(p) == [p EXCEPT !.current_part = None]

\* _construct_part at the blank line, from "part.disposition, part.options
\* = ...": part is the object with its attributes set, content_length its
\* Content-Length header
EndOfHeaders(p, part, content_length) ==
  IF content_length # None /\ ~IsInt(content_length[1])
  THEN [p |-> Written([p EXCEPT !.current_part = Some(part)], part),
        part |-> part, exc |-> "ValueError"]
  ELSE [p |-> ForgetCurrentPart(
                Written([p EXCEPT
                           !.expected_part_size =
                              IF content_length # None
                              THEN Some(ParseInt(content_length[1])) ELSE @,
                           !.current_part = Some(part),
                           !.state = "BUILDING_BODY",
                           !.closed = @ + 1],
                        part)),
        part |-> part, exc |-> "none"]

\* _construct_part, "part.headerlist.append((name.strip(), value.strip()))"
HeaderAppended(p, part) ==
  [p |-> Written([p EXCEPT !.current_part = Some(part)], part),
   part |-> part, exc |-> "none"]

\* _construct_part: one header line (line, newline) added to part
ConstructPart(p, part, line, newline) ==
  IF newline = <<>>
  THEN [p |-> [p EXCEPT !.state = "BUILDING_HEADERS_NEED_DATA"],
        part |-> part, exc |-> "none"]
  ELSE IF Strip(line) = <<>>
  THEN LET content_disposition == HeadersGet(part.headerlist, CONTENT_DISPOSITION)
           content_type == HeadersGet(part.headerlist, CONTENT_TYPE)
           content_length == HeadersGet(part.headerlist, CONTENT_LENGTH)
       IN IF content_disposition = None \/ content_disposition[1] = <<>>
          THEN [p |-> p, part |-> part, exc |-> "MalformedData"]
          ELSE EndOfHeaders(
                 p,
                 ParsedPart(part,
                            ParseOptionsHeader(content_disposition[1]),
                            ParseOptionsHeader(IF content_type = None
                                               THEN <<>>
                                               ELSE content_type[1])),
                 content_length)
  ELSE IF IndexOf(line, ":") = 0
  THEN [p |-> p, part |-> part, exc |-> "MalformedData"]
  ELSE LET c == IndexOf(line, ":")
           name == Strip(SubSeq(line, 1, c - 1))
           value == Strip(SubSeq(line, c + 1, Len(line)))
       IN HeaderAppended(
            p, [part EXCEPT !.headerlist = Append(@, <<name, value>>)])

\* ReturnPart with the part forgotten: a bare "return"
ReturnPartNothing(p, part, lines) ==
  [p |-> [p EXCEPT !.buffer = JoinLines(lines)],
   event |-> None, rest |-> <<>>, exc |-> "none"]

\* _parse_part, "elif self.state is States.BUILDING_BODY": the unread lines
\* replace the carry-over and the part is returned
ReturnPart(p, part, lines) ==
  [p |-> [p EXCEPT !.buffer = JoinLines(lines),
                   !.objects.queued = Append(@, part.id)],
   event |-> Some(PartEvent(part, p.closed)),
   rest |-> <<>>, exc |-> "none"]

RECURSIVE HeaderLines(_, _, _)
\* the loop "for line, newline in lines" of _parse_part
HeaderLines(p, part, lines) ==
  IF lines = <<>>
  THEN [p |-> [p EXCEPT !.state = "BUILDING_HEADERS_NEED_DATA"],
        event |-> None, rest |-> <<>>, exc |-> "none"]
  ELSE LET ln == SeparateNewlines(Head(lines))
           r == ConstructPart(p, part, ln.l, ln.nl)
       IN IF r.exc # "none"
          THEN [p |-> r.p, event |-> None, rest |-> Tail(lines), exc |-> r.exc]
          ELSE IF r.p.state = "BUILDING_HEADERS_NEED_DATA"
          THEN [p |-> [r.p EXCEPT !.buffer =
                          @ \o ln.l \o ln.nl \o JoinLines(Tail(lines))],
                event |-> None, rest |-> <<>>, exc |-> "none"]
          ELSE IF r.p.state = "BUILDING_BODY"
          THEN ReturnPart(r.p, r.part, Tail(lines))
          ELSE HeaderLines(r.p, r.part, Tail(lines))

RECURSIVE SkipBlank(_)
\* the unread lines from the first one whose text is not empty
SkipBlank(lines) ==
  IF lines # <<>> /\ SeparateNewlines(Head(lines)).l = <<>>
  THEN SkipBlank(Tail(lines)) ELSE lines

\* _parse_part: called in state BUILDING_HEADERS with the unread lines
ParsePart(p, lines) ==
  LET found == SkipBlank(lines)
      first == IF found = <<>> THEN [l |-> <<>>, nl |-> <<>>]
               ELSE SeparateNewlines(Head(found))
      maybe_seperator == first.l
      first_newline == first.nl
      after == IF found = <<>> THEN <<>> ELSE Tail(found)
  IN IF first_newline = <<>>
     THEN [p |-> [p EXCEPT !.buffer = @ \o maybe_seperator,
                           !.state = "BUILDING_HEADERS_NEED_DATA"],
           event |-> None, rest |-> after, exc |-> "none"]
     ELSE IF maybe_seperator # separator
             /\ Len(maybe_seperator) >= separator_len
     THEN [p |-> p, event |-> None, rest |-> after, exc |-> "MalformedData"]
     ELSE HeaderLines(
            Written([p EXCEPT
                       !.buffer = @ \o maybe_seperator \o first_newline,
                       !.current_part = Some(CurrentPartOrNew(p))],
                    CurrentPartOrNew(p)),
            CurrentPartOrNew(p), after)

\* _regulate_content_length
RegulateContentLength(p, line_size) ==
  IF p.expected_part_size # None
  THEN LET size == p.current_part_size + line_size
       IN [p |-> [p EXCEPT !.current_part_size = size],
           exc |-> IF size > p.expected_part_size[1]
                   THEN "MalformedData" ELSE "none"]
  ELSE [p |-> p, exc |-> "none"]

\* ReturnPartData without the test for an end condition
ReturnPartDataAlwaysNeedData(p, part_data_buffer, rest) ==
  IF part_data_buffer # <<>>
  THEN [p |-> [p EXCEPT !.state = "BUILDING_BODY_NEED_DATA"],
        event |-> Some(PartData(part_data_buffer, p.closed)),
        rest |-> rest, exc |-> "none"]
  ELSE [p |-> p, event |-> None, rest |-> rest, exc |-> "none"]

\* the end of _build_part_data: the PartData of this call, if any
ReturnPartData(p, part_data_buffer, rest) ==
  IF part_data_buffer # <<>>
  THEN [p |-> IF p.state \notin {"BUILDING_HEADERS", "FINISHED"}
              THEN [p EXCEPT !.state = "BUILDING_BODY_NEED_DATA"] ELSE p,
        event |-> Some(PartData(part_data_buffer, p.closed)),
        rest |-> rest, exc |-> "none"]
  ELSE [p |-> p, event |-> None, rest |-> rest, exc |-> "none"]

\* multipart.py, the end of _build_part_data: "if part_data_buffer:
\* self.state = States.BUILDING_BODY_NEED_DATA", whatever the state was
ReturnPartDataOfMultipartPy(p, part_data_buffer, rest) ==
  IF part_data_buffer # <<>>
  THEN [p |-> [p EXCEPT !.state = "BUILDING_BODY_NEED_DATA"],
        event |-> Some(PartDataLength(part_data_buffer, p.closed)),
        rest |-> rest, exc |-> "none"]
  ELSE [p |-> p, event |-> None, rest |-> rest, exc |-> "none"]

\* the end of _build_part_data in the parser constructed
EndOfBuildPartData(p, part_data_buffer, rest) ==
  IF p.source = MULTIPART_PY
  THEN ReturnPartDataOfMultipartPy(p, part_data_buffer, rest)
  ELSE ReturnPartData(p, part_data_buffer, rest)

\* OnTerminator that buffers the unread lines as the separator branch does
OnTerminatorBuffering(p, line, newline, lines) ==
  [p EXCEPT !.buffer = @ \o JoinLines(lines),
            !.state = "FINISHED",
            !.current_part_size = 0,
            !.expected_part_size = None]

\* _build_part_data, "if line == self.terminator"
OnTerminator(p, line, newline, lines) ==
  [p EXCEPT !.state = "FINISHED",
            !.current_part_size = 0,
            !.expected_part_size = None]

\* OnSeparator that leaves the part-size counters as they are
OnSeparatorKeepingSizes(p, line, newline, lines) ==
  [p EXCEPT !.buffer = @ \o line \o newline \o JoinLines(lines),
            !.state = "BUILDING_HEADERS"]

\* _build_part_data, "elif line == self.separator": the separator line and
\* the unread lines go to the carry-over
OnSeparator(p, line, newline, lines) ==
  [p EXCEPT !.buffer = @ \o line \o newline \o JoinLines(lines),
            !.state = "BUILDING_HEADERS",
            !.current_part_size = 0,
            !.expected_part_size = None]

\* the body line kept with its own terminator, nothing withheld
AppendBodyLineWithNewline(part_data_buffer, previous_newline, line, newline) ==
  [part_data_buffer |-> part_data_buffer \o line \o newline,
   previous_newline |-> <<>>]

\* _build_part_data, a terminated body line: "part_data_buffer +=
\* previous_newline + line; previous_newline = newline"
AppendBodyLine(part_data_buffer, previous_newline, line, newline) ==
  [part_data_buffer |-> part_data_buffer \o previous_newline \o line,
   previous_newline |-> newline]

\* HoldBack without the test of the line's length
HoldBackAny(p, line) ==
  [p EXCEPT !.last_partial_line = Some(line),
            !.state = "BUILDING_BODY_NEED_DATA"]

\* _build_part_data, an unterminated body line: "if len(line) <
\* self.separator_len", the line is kept and more data is asked for
HoldBack(p, line) ==
  IF Len(line) < separator_len
  THEN [p EXCEPT !.last_partial_line = Some(line),
                 !.state = "BUILDING_BODY_NEED_DATA"]
  ELSE p

\* multipart.py, _build_part_data, "elif line == self.separator": the
\* unread lines go to the carry-over, the separator line does not
OnSeparatorOfMultipartPy(p, line, newline, lines) ==
  [p EXCEPT !.buffer = @ \o JoinLines(lines),
            !.state = "BUILDING_HEADERS",
            !.current_part_size = 0,
            !.expected_part_size = None]

\* the separator branch of _build_part_data in the parser constructed
SeparatorMet(p, line, newline, lines) ==
  IF p.source = MULTIPART_PY
  THEN OnSeparatorOfMultipartPy(p, line, newline, lines)
  ELSE OnSeparator(p, line, newline, lines)

RECURSIVE BodyLines(_, _, _, _)
\* the loop "for line, newline in lines" of _build_part_data
BodyLines(p, lines, part_data_buffer, previous_newline) ==
  IF lines = <<>>
  THEN EndOfBuildPartData(p, part_data_buffer, <<>>)
  ELSE LET ln == SeparateNewlines(Head(lines))
           newline == ln.nl
           line == IF p.last_partial_line # None
                   THEN p.last_partial_line[1] \o ln.l ELSE ln.l
           p1 == [p EXCEPT !.last_partial_line = None]
       IN IF line = terminator
          THEN EndOfBuildPartData(
                 OnTerminator(p1, line, newline, Tail(lines)),
                 part_data_buffer, Tail(lines))
          ELSE IF line = separator
          THEN EndOfBuildPartData(
                 SeparatorMet(p1, line, newline, Tail(lines)),
                 part_data_buffer, <<>>)
          ELSE IF newline = <<>>
          THEN BodyLines(HoldBack(p1, line), Tail(lines), part_data_buffer,
                         previous_newline)
          ELSE LET r == RegulateContentLength(p1, Len(line))
               IN IF r.exc # "none"
                  THEN [p |-> r.p, event |-> None, rest |-> Tail(lines),
                        exc |-> r.exc]
                  ELSE LET b == AppendBodyLine(part_data_buffer,
                                               previous_newline, line, newline)
                       IN BodyLines(r.p, Tail(lines), b.part_data_buffer,
                                    b.previous_newline)

\* _build_part_data: called in state BUILDING_BODY with the unread lines
BuildPartData(p, lines) == BodyLines(p, lines, <<>>, <<>>)

\* the exception a raise statement of the parser constructed raises:
\* multipart.py has MultipartError where parser.py has MalformedData
Raised(p, exc) ==
  IF p.source = MULTIPART_PY /\ exc = "MalformedData" THEN "MultipartError"
  ELSE exc

\* NeedData that leaves the sub-state as it is
NeedDataKeepingState(p, queued, state) ==
  [p |-> p, appended |-> Append(queued, NEED_DATA),
   exc |-> "none", hung |-> FALSE]

\* _queue_events, "if self.state is States.BUILDING_*_NEED_DATA": NEED_DATA
\* is queued, the state is reset to state, and the loop is left
NeedData(p, queued, state) ==
  [p |-> [p EXCEPT !.state = state], appended |-> Append(queued, NEED_DATA),
   exc |-> "none", hung |-> FALSE]

RECURSIVE CoreLoop(_, _, _)
\* the "while True" loop of _queue_events.  p0 and lines0 are the parser and
\* the unread lines at the top of an iteration, appended the events this
\* call has queued so far.  An iteration that does not break and leaves the
\* parser and the iterator as they were repeats for ever: hung.
CoreLoop(p0, lines0, appended) ==
  LET lines == IF p0.buffer # <<>>
               THEN Splitlines(p0.buffer) \o lines0 ELSE lines0
      p == [p0 EXCEPT !.buffer = <<>>]
      r == IF p.state = "BUILDING_HEADERS" THEN ParsePart(p, lines)
           ELSE IF p.state = "BUILDING_BODY" THEN BuildPartData(p, lines)
           ELSE [p |-> p, event |-> None, rest |-> lines, exc |-> "none"]
      queued == appended \o r.event
  IN IF r.exc # "none"
     THEN [p |-> [r.p EXCEPT !.state = "ERROR"], appended |-> appended,
           exc |-> Raised(p0, r.exc), hung |-> FALSE]
     ELSE IF r.p.state = "BUILDING_HEADERS_NEED_DATA"
     THEN NeedData(r.p, queued, "BUILDING_HEADERS")
     ELSE IF r.p.state = "BUILDING_BODY_NEED_DATA"
     THEN NeedData(r.p, queued, "BUILDING_BODY")
     ELSE IF r.p.state = "FINISHED"
     THEN [p |-> r.p, appended |-> Append(queued, FINISHED),
           exc |-> "none", hung |-> FALSE]
     ELSE IF r.p = p0 /\ r.rest = lines0 /\ r.event = None
     THEN [p |-> r.p, appended |-> queued, exc |-> "none", hung |-> TRUE]
     ELSE CoreLoop(r.p, r.rest, queued)

\* QueueEvents without the test for the ERROR state
QueueEventsNoErrorTest(p, chunk) ==
  CoreLoop([p EXCEPT !.buffer = <<>>], Splitlines(p.buffer \o chunk), <<>>)

\* _queue_events(chunk)
QueueEvents(p, chunk) ==
  IF p.state = "ERROR"
  THEN [p |-> p, appended |-> <<>>, exc |-> "RuntimeError", hung |-> FALSE]
  ELSE CoreLoop([p EXCEPT !.buffer = <<>>], Splitlines(p.buffer \o chunk),
                <<>>)

\* ------------------------------------------------------------------------
\* Messages fed to the parser
\* ------------------------------------------------------------------------

\* A header line of a message: its name and value, and its bytes.

\* "Content-Disposition:f"
LineD == [name |-> CONTENT_DISPOSITION, value |-> <<"f">>,
          line |-> <<"D", ":", "f">>]

\* "Content-Length:<d>"
LineL(d) == [name |-> CONTENT_LENGTH, value |-> <<d>>,
             line |-> <<"L", ":", d>>]

\* "Content-Type: t", with a space after the colon
LineT == [name |-> CONTENT_TYPE, value |-> <<"t">>,
          line |-> <<"T", ":", SP, "t">>]

\* "Content-Disposition:;name=a": no token before the options
LineDNoToken == [name |-> CONTENT_DISPOSITION,
                 value |-> <<";", "name", "=", "a">>,
                 line |-> <<"D", ":", ";", "name", "=", "a">>]

\* a header line without a colon
LineNoColon == [name |-> <<>>, value |-> <<>>, line |-> <<"f">>]

Bodies ==
  { <<>>, <<"a">>, <<"a", "b">>, <<"a", "b", "c", "d">>,
    <<"a", CR, LF, "b">>, <<"a", LF>>, <<"-", "-">> }

\* the part of a one-part message: any body under a Content-Disposition,
\* bodies of 2 and of 4 bytes under Content-Length: 2, and one body under
\* each kind of malformed header block
SingleParts ==
  {[hdrs |-> <<LineD>>, body |-> b] : b \in Bodies}
  \cup
  {[hdrs |-> <<LineD, LineL("2")>>, body |-> b] :
     b \in {<<"a", "b">>, <<"a", "b", "c", "d">>, <<"a", CR, LF, "b">>}}
  \cup
  {[hdrs |-> h, body |-> <<"a">>] :
     h \in {<<LineT>>, <<LineT, LineD>>, <<LineNoColon>>,
            <<LineD, LineL("f")>>, <<LineDNoToken>>}}

\* the parts of a message of several parts
SeveralParts ==
  {[hdrs |-> <<LineD>>, body |-> <<"a">>],
   [hdrs |-> <<LineD, LineL("1")>>, body |-> <<"b">>]}

\* scenario S1: one part with body "a"
S1Parts == <<[hdrs |-> <<LineD>>, body |-> <<"a">>]>>

RECURSIVE PartLists(_)
\* the part lists of n parts: one part of any kind, two parts with and
\* without Content-Length, and further parts like that of S1
PartLists(n) ==
  IF n = 1 THEN {<<f>> : f \in SingleParts}
  ELSE IF n = 2 THEN {<<f, t>> : f \in SeveralParts, t \in SeveralParts}
  ELSE {Append(ps, S1Parts[1]) : ps \in PartLists(n - 1)}

\* the messages: part lists alone, and S1 after a blank line, after a line
\* that is not the boundary, and before trailing bytes
Messages ==
  {[pre |-> <<>>, parts |-> ps, epi |-> <<>>] :
     ps \in UNION {PartLists(n) : n \in 1..MaxParts}}
  \cup
  {[pre |-> CRLF, parts |-> S1Parts, epi |-> <<>>],
   [pre |-> <<"a", "a", "a", CR, LF>>, parts |-> S1Parts, epi |-> <<>>],
   [pre |-> <<>>, parts |-> S1Parts, epi |-> <<"a", CR, LF>>]}

RECURSIVE WireLines(_)
WireLines(hdrs) ==
  IF hdrs = <<>> THEN <<>>
  ELSE Head(hdrs).line \o CRLF \o WireLines(Tail(hdrs))

RECURSIVE WireParts(_)
\* separator line, header lines, blank line, body, CRLF for each part
WireParts(ps) ==
  IF ps = <<>> THEN <<>>
  ELSE separator \o CRLF \o WireLines(Head(ps).hdrs) \o CRLF
       \o Head(ps).body \o CRLF \o WireParts(Tail(ps))

\* the bytes of message m
Wire(m) == m.pre \o WireParts(m.parts) \o terminator \o CRLF \o m.epi

\* Messages with one boundary line altered.  The boundary lines of a
\* message of n parts are numbered 1..n + 1: the separator that opens part
\* k is line k, the terminator is line n + 1.

\* two parts with bodies "a" and "b"
TwoParts == <<S1Parts[1], [hdrs |-> <<LineD>>, body |-> <<"b">>]>>

\* the bytes a byte of a boundary line is replaced by
FlipBytes == {"a", "-", CR, LF}

\* one byte of a separator line replaced by another byte
Flips(line) ==
  {[kind |-> "flip", line |-> line, at |-> i, to |-> b] :
     i \in 1..separator_len, b \in FlipBytes}
  \ {a \in [kind : {"flip"}, line : {line}, at : 1..separator_len,
              to : FlipBytes] : separator[a.at] = a.to}

\* a space between the text of a boundary line and its line terminator
Pad(line) == [kind |-> "pad", line |-> line, at |-> 0, to |-> SP]

\* messages whose first separator, or whose separator after body data, has
\* a byte replaced; messages whose first separator, separator after body
\* data, or terminator is followed by a space
AlteredMessages ==
  {[pre |-> <<>>, parts |-> S1Parts, epi |-> <<>>, alter |-> a] :
     a \in Flips(1) \cup {Pad(1), Pad(2)}}
  \cup
  {[pre |-> <<>>, parts |-> TwoParts, epi |-> <<>>, alter |-> a] :
     a \in Flips(2) \cup {Pad(2)}}

\* the bytes of message m with its alteration made
AlteredWire(m) ==
  LET w == Wire(m)
      start == Len(m.pre) + Len(WireParts(SubSeq(m.parts, 1, m.alter.line - 1)))
      text == IF m.alter.line > Len(m.parts) THEN terminator ELSE separator
  IN IF m.alter.kind = "flip"
     THEN [w EXCEPT ![start + m.alter.at] = m.alter.to]
     ELSE SubSeq(w, 1, start + Len(text)) \o <<m.alter.to>>
          \o SubSeq(w, start + Len(text) + 1, Len(w))

\* Header values given to parse_options_header: a principal token and
\* options, written "principal; key=value; key=value".

\* how many options a header value has at most
MaxOptions == 2

\* v between double quotes
Quoted(v) == <<DQ>> \o v \o <<DQ>>

\* "f", "F", " f" and "F "
Principals == {<<"f">>, <<"F">>, <<SP, "f">>, <<"F", SP>>}

OptionKeys == {NAME, FILENAME, <<"NAME">>}

\* a, "a", "c:\a\b", "\\a\b" and "a\"b"
OptionValues ==
  {<<"a">>, Quoted(<<"a">>), Quoted(<<"c", ":", BS, "a", BS, "b">>),
   Quoted(<<BS, BS, "a", BS, "b">>), Quoted(<<"a", BS, DQ, "b">>)}

RECURSIVE OptionLists(_)
\* the lists of n options
OptionLists(n) ==
  IF n = 0 THEN {<<>>}
  ELSE {Append(os, o) : os \in OptionLists(n - 1),
                        o \in [key : OptionKeys, val : OptionValues]}

HeaderValues ==
  [principal : Principals,
   opts : UNION {OptionLists(n) : n \in 0..MaxOptions}]

RECURSIVE OptionsText(_)
OptionsText(opts) ==
  IF opts = <<>> THEN <<>>
  ELSE <<";", SP>> \o Head(opts).key \o <<"=">> \o Head(opts).val
       \o OptionsText(Tail(opts))

\* the bytes of header value hv
HeaderText(hv) == hv.principal \o OptionsText(hv.opts)

\* Requests given to parse_form_data: the WSGI environment and the strict
\* flag.  The content types multipart/form-data and
\* application/x-www-form-urlencoded are one symbol each, "MULTIPART" is
\* multipart/form-data in upper case.

MULTIPART_FORM_DATA == <<"multipart/form-data">>
FORM_URLENCODED == <<"application/x-www-form-urlencoded">>

ContentTypes ==
  {<<>>, <<"t">>, MULTIPART_FORM_DATA, FORM_URLENCODED,
   MULTIPART_FORM_DATA \o <<";", SP>> \o BOUNDARY \o <<"=", "X">>,
   MULTIPART_FORM_DATA \o <<";", SP>> \o CHARSET \o <<"=", "t", ";", SP>>
     \o BOUNDARY \o <<"=", "X">>,
   <<"MULTIPART", ";", SP>> \o BOUNDARY \o <<"=", "X">>}

Environs ==
  [REQUEST_METHOD : {None, Some("GET"), Some("POST"), Some("PUT"),
                     Some("post")},
   CONTENT_LENGTH : {None, Some(<<"2">>), Some(<<"f">>)},
   CONTENT_TYPE : ContentTypes,
   strict : BOOLEAN]

\* Messages with another line terminator.

RECURSIVE ReplaceCRLF(_, _)
\* the bytes s with every CR LF replaced by eol
ReplaceCRLF(s, eol) ==
  IF s = <<>> THEN <<>>
  ELSE IF Len(s) >= 2 /\ SubSeq(s, 1, 2) = CRLF
  THEN eol \o ReplaceCRLF(SubSeq(s, 3, Len(s)), eol)
  ELSE <<Head(s)>> \o ReplaceCRLF(Tail(s), eol)

\* every CR of s is followed by LF and every LF of s follows a CR
OnlyCRLF(s) ==
  \A i \in 1..Len(s) :
     /\ s[i] = CR => (i < Len(s) /\ s[i + 1] = LF)
     /\ s[i] = LF => (i > 1 /\ s[i - 1] = CR)

\* Messages whose parts are closed by a line terminator of their own: the
\* bytes between a body and the boundary line after it are close, every
\* other line ends with the one byte eol, and no byte of close occurs in a
\* body.  A byte of close in a PartData is then the terminator before a
\* boundary line, or the terminator of a header or boundary line.

\* the line terminators _separate_newlines knows
Terminators == {CRLF, <<LF>>, <<CR>>}

\* the bodies that hold no byte of close; two-line bodies among them
ClosingBodies(close) ==
  {b \in Bodies \cup {<<"a", CR, "b">>, <<"a", LF, "b">>} :
     \A i \in 1..Len(b) : \A j \in 1..Len(close) : b[i] # close[j]}

\* the terminators of the other lines: CR where the parts are closed by
\* LF, LF where they are closed by CR, either under CR LF
ClosingEols(close) ==
  IF close = CRLF THEN {<<LF>>, <<CR>>} ELSE {<<LF>>, <<CR>>} \ {close}

ClosingMessages ==
  UNION {{[pre |-> <<>>, parts |-> ps, epi |-> <<>>, eol |-> e, close |-> c] :
            ps \in {<<[hdrs |-> <<LineD>>, body |-> b]>> :
                      b \in ClosingBodies(c)} \cup {TwoParts},
            e \in ClosingEols(c)} :
         c \in Terminators}

RECURSIVE ClosedWireParts(_, _, _)
\* WireParts with close between each body and the boundary line after it
\* and eol after the other lines
ClosedWireParts(ps, eol, close) ==
  IF ps = <<>> THEN <<>>
  ELSE separator \o eol
       \o ReplaceCRLF(WireLines(Head(ps).hdrs) \o CRLF, eol)
       \o Head(ps).body \o close \o ClosedWireParts(Tail(ps), eol, close)

\* the bytes of message m
ClosedWire(m) ==
  m.pre \o ClosedWireParts(m.parts, m.eol, m.close) \o terminator \o m.eol
  \o m.epi

\* ------------------------------------------------------------------------
\* State
\* ------------------------------------------------------------------------

VARIABLES
  source,             \* the file whose MultipartParser was constructed
  msg,                \* the message the caller sends, fixed for the run
  input,              \* its bytes
  pos,                \* how many of its bytes have been fed
  nfeeds,             \* how many feed calls were made
  state,              \* MultipartParser.state
  events_queue,       \* MultipartParser.events_queue
  buffer,             \* MultipartParser.buffer, the carry-over
  last_partial_line,  \* MultipartParser.last_partial_line
  current_part,       \* MultipartParser.current_part
  expected_part_size, \* MultipartParser.expected_part_size
  current_part_size,  \* MultipartParser.current_part_size
  closed,             \* history: header blocks closed so far
  objects,            \* the Part objects made and which of them were queued
  emitted,            \* history: every event ever queued, in order
  handed,             \* history: every event taken from the queue, in order
  result,             \* the outcome of the last call
  hung,               \* the last feed call never returns
  emptyFed,           \* history: some chunk fed was empty
  cutsInBoundary      \* history: every cut so far fell inside a boundary line

vars == <<source, msg, input, pos, nfeeds, state, events_queue, buffer,
          last_partial_line,
          current_part, expected_part_size, current_part_size, closed,
          objects, emitted, handed, result, hung, emptyFed, cutsInBoundary>>

\* the parser's fields as one record
Self ==
  [state |-> state, buffer |-> buffer,
   last_partial_line |-> last_partial_line, current_part |-> current_part,
   expected_part_size |-> expected_part_size,
   current_part_size |-> current_part_size, closed |-> closed,
   source |-> source, objects |-> objects]

\* number of bytes of message m before the boundary line that closes part k
ClosingBoundaryStart(m, k) ==
  Len(m.pre) + Len(WireParts(SubSeq(m.parts, 1, k)))

\* cut position c is strictly inside the separator or terminator line that
\* closes a part of m with a non-empty body
InBoundary(m, c) ==
  \E k \in 1..Len(m.parts) :
     /\ m.parts[k].body # <<>>
     /\ c > ClosingBoundaryStart(m, k)
     /\ c < ClosingBoundaryStart(m, k)
              + (IF k = Len(m.parts) THEN Len(terminator)
                 ELSE Len(separator))

\* parser has been constructed, nothing fed yet
Constructed(parser) ==
  /\ source = parser.source
  /\ pos = 0
  /\ nfeeds = 0
  /\ state = parser.state
  /\ events_queue = <<>>
  /\ buffer = parser.buffer
  /\ last_partial_line = parser.last_partial_line
  /\ current_part = parser.current_part
  /\ expected_part_size = parser.expected_part_size
  /\ current_part_size = parser.current_part_size
  /\ closed = 0
  /\ objects = parser.objects
  /\ emitted = <<>>
  /\ handed = <<>>
  /\ result = [op |-> "init", exc |-> "none", ret |-> <<>>]
  /\ hung = FALSE
  /\ emptyFed = FALSE
  /\ cutsInBoundary = TRUE

\* a new parser of parser.py, nothing fed yet
Fresh == Constructed(NewParser)

Init ==
  /\ msg \in Messages
  /\ input = Wire(msg)
  /\ Fresh

\* recv(chunk): the caller feeds the next k bytes of the message
Recv(k) ==
  /\ ~hung
  /\ nfeeds < MaxFeeds
  /\ \E r \in {QueueEvents(Self, SubSeq(input, pos + 1, pos + k))} :
        /\ state' = r.p.state
        /\ buffer' = r.p.buffer
        /\ last_partial_line' = r.p.last_partial_line
        /\ current_part' = r.p.current_part
        /\ expected_part_size' = r.p.expected_part_size
        /\ current_part_size' = r.p.current_part_size
        /\ closed' = r.p.closed
        /\ objects' = r.p.objects
        /\ events_queue' = events_queue \o r.appended
        /\ emitted' = emitted \o r.appended
        /\ result' = [op |-> "recv", exc |-> r.exc, ret |-> <<>>]
        /\ hung' = r.hung
  /\ pos' = pos + k
  /\ nfeeds' = nfeeds + 1
  /\ emptyFed' = (emptyFed \/ k = 0)
  /\ cutsInBoundary' =
       (cutsInBoundary
        /\ (pos + k = Len(input) \/ InBoundary(msg, pos + k)))
  /\ UNCHANGED <<source, msg, input, handed>>

\* next_event() reading the oldest event without removing it
NextEventPeek ==
  /\ ~hung
  /\ result' = [op |-> "next_event", exc |-> "none",
                ret |-> IF events_queue # <<>> THEN <<Head(events_queue)>>
                        ELSE IF state # "FINISHED" THEN <<NEED_DATA>>
                        ELSE <<FINISHED>>]
  /\ handed' = IF events_queue # <<>>
               THEN Append(handed, Head(events_queue)) ELSE handed
  /\ UNCHANGED events_queue
  /\ UNCHANGED <<source, msg, input, pos, nfeeds, state, buffer,
                 last_partial_line, current_part, expected_part_size,
                 current_part_size, closed, objects,
                 emitted, hung, emptyFed, cutsInBoundary>>

\* next_event()
NextEvent ==
  /\ ~hung
  /\ IF events_queue # <<>>
     THEN /\ result' = [op |-> "next_event", exc |-> "none",
                        ret |-> <<Head(events_queue)>>]
          /\ events_queue' = Tail(events_queue)
          /\ handed' = Append(handed, Head(events_queue))
     ELSE /\ result' = [op |-> "next_event", exc |-> "none",
                        ret |-> IF state # "FINISHED" THEN <<NEED_DATA>>
                                ELSE <<FINISHED>>]
          /\ UNCHANGED <<events_queue, handed>>
  /\ UNCHANGED <<source, msg, input, pos, nfeeds, state, buffer,
                 last_partial_line, current_part, expected_part_size,
                 current_part_size, closed, objects,
                 emitted, hung, emptyFed, cutsInBoundary>>

\* parts() as list(self.events_queue): nothing is popped
PartsKeeping ==
  /\ ~hung
  /\ result' = [op |-> "parts", exc |-> "none", ret |-> events_queue]
  /\ handed' = handed \o events_queue
  /\ UNCHANGED events_queue
  /\ UNCHANGED <<source, msg, input, pos, nfeeds, state, buffer,
                 last_partial_line, current_part, expected_part_size,
                 current_part_size, closed, objects,
                 emitted, hung, emptyFed, cutsInBoundary>>

\* parts(): list(self), which pops every queued event
Parts ==
  /\ ~hung
  /\ result' = [op |-> "parts", exc |-> "none", ret |-> events_queue]
  /\ events_queue' = <<>>
  /\ handed' = handed \o events_queue
  /\ UNCHANGED <<source, msg, input, pos, nfeeds, state, buffer,
                 last_partial_line, current_part, expected_part_size,
                 current_part_size, closed, objects,
                 emitted, hung, emptyFed, cutsInBoundary>>

\* parse(chunk): _queue_events(chunk), then parts() unless that raised
Parse(k) ==
  /\ ~hung
  /\ nfeeds < MaxFeeds
  /\ \E r \in {QueueEvents(Self, SubSeq(input, pos + 1, pos + k))} :
        /\ state' = r.p.state
        /\ buffer' = r.p.buffer
        /\ last_partial_line' = r.p.last_partial_line
        /\ current_part' = r.p.current_part
        /\ expected_part_size' = r.p.expected_part_size
        /\ current_part_size' = r.p.current_part_size
        /\ closed' = r.p.closed
        /\ objects' = r.p.objects
        /\ emitted' = emitted \o r.appended
        /\ hung' = r.hung
        /\ IF r.exc = "none" /\ ~r.hung
           THEN /\ result' = [op |-> "parse", exc |-> "none",
                              ret |-> events_queue \o r.appended]
                /\ events_queue' = <<>>
                /\ handed' = handed \o events_queue \o r.appended
           ELSE /\ result' = [op |-> "parse", exc |-> r.exc, ret |-> <<>>]
                /\ events_queue' = events_queue \o r.appended
                /\ UNCHANGED handed
  /\ pos' = pos + k
  /\ nfeeds' = nfeeds + 1
  /\ emptyFed' = (emptyFed \/ k = 0)
  /\ cutsInBoundary' =
       (cutsInBoundary
        /\ (pos + k = Len(input) \/ InBoundary(msg, pos + k)))
  /\ UNCHANGED <<source, msg, input>>

\* __exit__ with every argument ignored: the end of a "with parser:" block
ExitQuiet ==
  /\ ~hung
  /\ result' = [op |-> "exit", exc |-> "none", ret |-> <<>>]
  /\ UNCHANGED <<source, msg, input, pos, nfeeds, state, events_queue,
                 buffer, last_partial_line, current_part, expected_part_size,
                 current_part_size, closed, objects,
                 emitted, handed, hung, emptyFed,
                 cutsInBoundary>>

\* __exit__(exc_type, exc_val, exc_tb): the end of a "with parser:" block
Exit ==
  /\ ~hung
  /\ result' = [op |-> "exit",
                exc |-> IF state # "FINISHED" THEN "UnexpectedExit"
                        ELSE "none",
                ret |-> <<>>]
  /\ UNCHANGED <<source, msg, input, pos, nfeeds, state, events_queue,
                 buffer, last_partial_line, current_part, expected_part_size,
                 current_part_size, closed, objects,
                 emitted, handed, hung, emptyFed,
                 cutsInBoundary>>

\* A call of parse_options_header with the bytes of header value hv.  The
\* function reads nothing but its argument: one call in a run shows it.
CallParseOptionsHeader(hv) ==
  /\ result.op = "init"
  /\ result' = [op |-> "parse_options_header", exc |-> "none", arg |-> hv,
                ret |-> ParseOptionsHeader(HeaderText(hv))]
  /\ UNCHANGED <<source, msg, input, pos, nfeeds, state, events_queue,
                 buffer, last_partial_line, current_part, expected_part_size,
                 current_part_size, closed, objects,
                 emitted, handed, hung, emptyFed,
                 cutsInBoundary>>

\* a call of parse_form_data, which reads nothing but its arguments
CallParseFormData(environ) ==
  /\ result.op = "init"
  /\ \E r \in {ParseFormData(environ, environ.strict)} :
        result' = [op |-> "parse_form_data", exc |-> r.exc, arg |-> environ,
                   ret |-> IF r.exc = "none" THEN <<r.forms, r.files>>
                           ELSE <<>>]
  /\ UNCHANGED <<source, msg, input, pos, nfeeds, state, events_queue,
                 buffer, last_partial_line, current_part, expected_part_size,
                 current_part_size, closed, objects,
                 emitted, handed, hung, emptyFed,
                 cutsInBoundary>>

\* The caller feeds the message in chunks of its choosing.
Next == \E k \in 0..(Len(input) - pos) : Recv(k)

Spec == Init /\ [][Next]_vars

\* The caller feeds a message with an altered boundary line.
InitAltered ==
  /\ msg \in AlteredMessages
  /\ input = AlteredWire(msg)
  /\ Fresh

SpecAltered == InitAltered /\ [][Next]_vars

\* The caller feeds a message whose parts are closed by CR LF, LF or CR.
InitClosed ==
  /\ msg \in ClosingMessages
  /\ input = ClosedWire(msg)
  /\ Fresh

SpecClosed == InitClosed /\ [][Next]_vars

\* The caller feeds a message to the parser of multipart.py.
InitMultipartPy ==
  /\ msg \in Messages
  /\ input = Wire(msg)
  /\ Constructed(NewParserOfMultipartPy)

SpecMultipartPy == InitMultipartPy /\ [][Next]_vars

\* The caller parses header values and requests.
NextUtil ==
  \/ \E hv \in HeaderValues : CallParseOptionsHeader(hv)
  \/ \E environ \in Environs : CallParseFormData(environ)

InitUtil ==
  /\ msg = [pre |-> <<>>, parts |-> S1Parts, epi |-> <<>>]
  /\ input = Wire(msg)
  /\ Fresh

SpecUtil == InitUtil /\ [][NextUtil]_vars

\* The caller feeds and also takes events from the queue.
NextAPI ==
  \/ \E k \in 0..(Len(input) - pos) : Recv(k)
  \/ \E k \in 0..(Len(input) - pos) : Parse(k)
  \/ NextEvent
  \/ Parts
  \/ Exit

InitAPI == Init /\ msg.parts = S1Parts

SpecAPI == InitAPI /\ [][NextAPI]_vars

\* ------------------------------------------------------------------------
\* Vocabulary of the properties
\* ------------------------------------------------------------------------

\* an event sequence without its NEED_DATA events
NoNeedData(evs) == SelectSeq(evs, LAMBDA e : e.type # "NEED_DATA")

\* the events queued when bytes are fed as one chunk to a new parser
SingleShot(bytes) == QueueEvents(NewParser, bytes).appended

\* number of Part events among the first i events
NumParts(evs, i) == Cardinality({j \in 1..i : evs[j].type = "Part"})

\* number of events of type t
Count(evs, t) == Cardinality({j \in 1..Len(evs) : evs[j].type = t})

RECURSIVE BodyFrom(_, _, _)
BodyFrom(evs, k, n) ==
  IF evs = <<>> THEN <<>>
  ELSE IF Head(evs).type = "Part" THEN BodyFrom(Tail(evs), k, n + 1)
  ELSE IF Head(evs).type = "PartData" /\ n = k
  THEN Head(evs).raw \o BodyFrom(Tail(evs), k, n)
  ELSE BodyFrom(Tail(evs), k, n)

\* the raw bytes of the PartData events between the k-th Part event and the
\* next Part event, concatenated
BodyOf(evs, k) == BodyFrom(evs, k, 0)

\* t occurs in s as a run of consecutive bytes
Contains(s, t) ==
  \E i \in 0..(Len(s) - Len(t)) : SubSeq(s, i + 1, i + Len(t)) = t

\* the principal token of a header value: the text before the first ";",
\* or all of it, in lower case and without white space around it
Principal(header) ==
  Strip(Lower(IF IndexOf(header, ";") = 0 THEN header
              ELSE SubSeq(header, 1, IndexOf(header, ";") - 1)))

\* the value of the first header line called name, <<>> when there is none
HeaderValue(hdrs, name) ==
  LET found == HeadersGet(
                 [i \in 1..Len(hdrs) |-> <<hdrs[i].name, hdrs[i].value>>],
                 name)
  IN IF found = None THEN <<>> ELSE found[1]

\* a part as RFC 7578 wants it: header lines with a name, a
\* Content-Disposition with a principal token, a Content-Length (if any)
\* that is the body's length, and no boundary line inside the body
WellFormedPart(pt) ==
  /\ \A i \in 1..Len(pt.hdrs) : pt.hdrs[i].name # <<>>
  /\ Principal(HeaderValue(pt.hdrs, CONTENT_DISPOSITION)) # <<>>
  /\ \A i \in 1..Len(pt.hdrs) :
        pt.hdrs[i].name = CONTENT_LENGTH =>
          IsInt(pt.hdrs[i].value) /\ ParseInt(pt.hdrs[i].value) = Len(pt.body)
  /\ LET ls == Splitlines(pt.body)
     IN \A i \in 1..Len(ls) :
           SeparateNewlines(ls[i]).l \notin {separator, terminator}

\* a valid message: blank lines at most before the first separator, and
\* well-formed parts
Valid(m) ==
  /\ \A i \in 1..Len(m.pre) : m.pre[i] \in {CR, LF}
  /\ \A k \in 1..Len(m.parts) : WellFormedPart(m.parts[k])

\* the valid messages whose CR and LF bytes all belong to a CR LF, each
\* to be sent with LF and with CR in place of every CR LF
EolMessages ==
  {[pre |-> m.pre, parts |-> m.parts, epi |-> m.epi, eol |-> eol] :
     m \in {v \in Messages : Valid(v) /\ OnlyCRLF(Wire(v))},
     eol \in {<<LF>>, <<CR>>}}

\* The caller feeds a message written with another line terminator.
InitEol ==
  /\ msg \in EolMessages
  /\ input = ReplaceCRLF(Wire(msg), msg.eol)
  /\ Fresh

SpecEol == InitEol /\ [][Next]_vars

\* events evs, the bytes of each PartData with eol in place of every CR LF
WithEol(evs, eol) ==
  [i \in 1..Len(evs) |->
     IF evs[i].type = "PartData"
     THEN PartData(ReplaceCRLF(evs[i].raw, eol), evs[i].part)
     ELSE evs[i]]

NonEmptyBodies(m) == \A k \in 1..Len(m.parts) : m.parts[k].body # <<>>

HeaderPairs(hdrs) == [i \in 1..Len(hdrs) |-> <<hdrs[i].name, hdrs[i].value>>]

RECURSIVE ExpectedEvents(_, _)
\* the part that header lines without options describe
ExpectedPart(hdrs) ==
  [headerlist |-> HeaderPairs(hdrs),
   disposition |-> Some(Principal(HeaderValue(hdrs, CONTENT_DISPOSITION))),
   name |-> None, filename |-> None,
   content_type |-> Some(Principal(HeaderValue(hdrs, CONTENT_TYPE))),
   charset |-> latin1]

\* Part(k), PartData(k) with the whole body, ..., FINISHED
ExpectedEvents(ps, k) ==
  IF ps = <<>> THEN <<FINISHED>>
  ELSE <<PartEvent(ExpectedPart(Head(ps).hdrs), k),
         PartData(Head(ps).body, k)>>
       \o ExpectedEvents(Tail(ps), k + 1)

\* ------------------------------------------------------------------------
\* Properties
\* ------------------------------------------------------------------------

\* C1: chunking invariance.  When a valid message has been fed whole, cut
\* into non-empty chunks in any way, the events queued, NEED_DATA events
\* removed, are those of feeding the message as one chunk.
ChunkingInvariance ==
  (Valid(msg) /\ pos = Len(input) /\ ~emptyFed /\ ~hung)
    => NoNeedData(emitted) = NoNeedData(SingleShot(input))

\* C2: body reconstruction.  When a valid message, cut in any way, has been
\* parsed to FINISHED, the raw bytes of the PartData events that follow the
\* k-th Part event are exactly the body of part k of the message.
BodyReconstruction ==
  (Valid(msg) /\ state = "FINISHED")
    => \A k \in 1..Len(msg.parts) : BodyOf(emitted, k) = msg.parts[k].body

\* C3: every feed call terminates: the core loop of _queue_events always
\* reaches one of its exits.
FeedTerminates == hung = FALSE

\* C4: boundary split across chunks.  When every cut of a valid message
\* falls strictly inside a separator or terminator line that follows body
\* data, the parser raises no error, ends in FINISHED with the events of
\* the unsplit message, and no PartData holds the separator's bytes.
BoundarySplit ==
  (Valid(msg) /\ nfeeds >= 2 /\ cutsInBoundary /\ ~emptyFed
   /\ pos = Len(input))
    => /\ ~hung
       /\ state = "FINISHED"
       /\ NoNeedData(emitted) = NoNeedData(SingleShot(input))
       /\ \A i \in 1..Len(emitted) : ~Contains(emitted[i].raw, separator)

\* C5: single-shot parse.  A valid message of n >= 1 parts with non-empty
\* bodies, fed in one chunk, queues exactly Part(1), PartData(1), ...,
\* Part(n), PartData(n), FINISHED, each PartData carrying the whole body of
\* its part, and leaves the parser in FINISHED.
SingleShotParse ==
  (nfeeds = 1 /\ pos = Len(input) /\ Valid(msg) /\ NonEmptyBodies(msg))
    => /\ ~hung
       /\ state = "FINISHED"
       /\ emitted = ExpectedEvents(msg.parts, 1)

\* witness of C5: a two-part message was parsed in one chunk
SingleShotParsed ==
  /\ nfeeds = 1 /\ pos = Len(input)
  /\ Valid(msg) /\ NonEmptyBodies(msg) /\ Len(msg.parts) = 2
  /\ Count(emitted, "PartData") = 2

\* C6: event ordering.  There is one Part event for each header block the
\* parser has closed, the k-th of them for the k-th block; every PartData
\* follows the Part event of the part it belongs to and precedes the Part
\* event of the next part.
EventOrdering ==
  /\ NumParts(emitted, Len(emitted)) = closed
  /\ \A i \in 1..Len(emitted) :
        /\ emitted[i].type = "Part" => emitted[i].part = NumParts(emitted, i)
        /\ emitted[i].type = "PartData" =>
             /\ NumParts(emitted, i) >= 1
             /\ emitted[i].part = NumParts(emitted, i)

\* witness of C6: two parts, each with body data, over several feed calls
TwoPartsOrdered ==
  /\ nfeeds >= 2
  /\ closed = 2
  /\ \E i, j \in 1..Len(emitted) :
        /\ emitted[i].type = "PartData" /\ emitted[i].part = 1
        /\ emitted[j].type = "PartData" /\ emitted[j].part = 2

\* C7: FINISHED is queued exactly once, however many feed calls follow the
\* one that consumed the terminator line.
FinishedOnce == Count(emitted, "FINISHED") <= 1

\* C8: bytes after the terminator are ignored.  FINISHED is never left,
\* the carry-over is empty whenever a feed call leaves the parser in
\* FINISHED, and no Part or PartData event is queued after a FINISHED event.
FinishedAbsorbs ==
  [][/\ state = "FINISHED" => state' = "FINISHED"
     /\ state' = "FINISHED" => buffer' = <<>>
     /\ \A i, j \in 1..Len(emitted') :
           (i < j /\ emitted'[i].type = "FINISHED")
             => emitted'[j].type \notin {"Part", "PartData"}]_vars

\* witness of C8: a message with trailing bytes was fed whole in non-empty
\* chunks, the last of them after FINISHED was reached
FedAfterFinished ==
  /\ state = "FINISHED"
  /\ msg.epi # <<>>
  /\ pos = Len(input)
  /\ ~emptyFed
  /\ Count(emitted, "FINISHED") >= 2

\* C9: ERROR is absorbing.  A feed call that raises leaves the parser in
\* ERROR; a feed call made in ERROR raises and leaves state, event queue,
\* carry-over and held-back fragment as they were.
ErrorAbsorbing ==
  [][nfeeds' # nfeeds =>
       /\ result'.exc # "none" => state' = "ERROR"
       /\ state = "ERROR" =>
            /\ result'.exc = "RuntimeError"
            /\ UNCHANGED <<state, events_queue, buffer, last_partial_line>>]_vars

\* witness of C9: a feed call was made in ERROR
FedInError == state = "ERROR" /\ result.exc = "RuntimeError"

\* C10: Content-Length policing.  For every part whose headers carry
\* Content-Length: N, the bytes of its PartData events number at most N.
ContentLengthPolicing ==
  \A i \in 1..Len(emitted) :
     emitted[i].type = "Part" =>
       LET content_length == HeadersGet(emitted[i].headerlist, CONTENT_LENGTH)
       IN (content_length # None /\ IsInt(content_length[1]))
            => Len(BodyOf(emitted, NumParts(emitted, i)))
                 <= ParseInt(content_length[1])

\* C11: disposition is mandatory.  Every Part event queued has a present,
\* non-empty disposition; a feed call that closes a header block with no
\* Content-Disposition header, or with one whose principal token is empty,
\* raises MalformedData and queues no Part event for that block.
DispositionMandatory ==
  /\ \A i \in 1..Len(emitted) :
        emitted[i].type = "Part" =>
          emitted[i].disposition # None /\ emitted[i].disposition[1] # <<>>
  /\ \A i \in 1..Len(emitted) :
        emitted[i].type = "Part" =>
          Principal(HeaderValue(msg.parts[emitted[i].part].hdrs,
                                CONTENT_DISPOSITION)) # <<>>

\* C12: scope exit.  __exit__ raises UnexpectedExit exactly when the
\* parser's state is not FINISHED, returns without error when it is, and
\* changes neither the parser's state nor its event queue.
ScopeExit ==
  [][result'.op = "exit" =>
       /\ (result'.exc = "UnexpectedExit") <=> (state # "FINISHED")
       /\ state = "FINISHED" => result'.exc = "none"
       /\ UNCHANGED <<state, events_queue>>]_vars

\* witness of C12: a scope was left without error, with events still queued
ExitedFinished ==
  /\ result.op = "exit" /\ result.exc = "none"
  /\ state = "FINISHED" /\ events_queue # <<>>

\* C13: next_event.  With events queued it removes and returns the oldest;
\* with none queued it returns FINISHED when the state is FINISHED and
\* NEED_DATA in every other state, ERROR too; it never changes the state,
\* the carry-over or the held-back fragment.
NextEventContract ==
  [][result'.op = "next_event" =>
       /\ result'.exc = "none"
       /\ events_queue # <<>> =>
            /\ result'.ret = <<Head(events_queue)>>
            /\ events_queue' = Tail(events_queue)
       /\ events_queue = <<>> =>
            /\ result'.ret = IF state = "FINISHED" THEN <<FINISHED>>
                             ELSE <<NEED_DATA>>
            /\ events_queue' = <<>>
       /\ UNCHANGED <<state, buffer, last_partial_line>>]_vars

\* witness of C13: next_event returned NEED_DATA from the empty queue of a
\* parser in ERROR
NextEventInError ==
  /\ result.op = "next_event" /\ result.ret = <<NEED_DATA>>
  /\ state = "ERROR" /\ events_queue = <<>>

\* C14: the queue is first-in first-out and hands out each event once.
\* Under any interleaving of recv, parse, next_event and parts, the events
\* taken from the queue, in the order taken, followed by the events still
\* queued, are the events in the order they were queued; parts returns
\* all queued events in order and leaves the queue empty; parse(chunk)
\* returns what recv(chunk) followed by parts() returns.
FifoDelivery ==
  [][/\ handed' \o events_queue' = emitted'
     /\ result'.op = "parts" =>
          result'.ret = events_queue /\ events_queue' = <<>>
     /\ result'.op = "parse" =>
          LET fed == QueueEvents(Self, SubSeq(input, pos + 1, pos'))
          IN /\ result'.exc = fed.exc
             /\ (fed.exc = "none" /\ ~fed.hung) =>
                  /\ result'.ret = events_queue \o fed.appended
                  /\ events_queue' = <<>>]_vars

\* witness of C14: parse returned events queued by an earlier recv together
\* with its own, after other events had been taken one at a time
ParsedAfterTaking ==
  /\ result.op = "parse" /\ result.exc = "none"
  /\ Len(handed) > Len(result.ret)
  /\ \E i \in 1..Len(result.ret) : result.ret[i].type = "NEED_DATA"
  /\ \E i \in 1..Len(result.ret) : result.ret[i].type = "FINISHED"

\* C15: exact boundary matching.  When one byte of the separator line that
\* opens part k of a valid message is replaced by another byte, the parse
\* fails with MalformedData or takes the line for body data: the line is
\* never taken for a boundary, so no Part event is queued for part k.
ExactBoundaryMatch ==
  msg.alter.kind = "flip" => closed < msg.alter.line

\* C16: trailing white space on boundary lines.  A separator or terminator
\* followed by a space before its line terminator is recognised as the
\* separator or terminator, in header-building and in body-building: the
\* message fed in one chunk queues the events of the message without the
\* space.
PaddedBoundary ==
  (msg.alter.kind = "pad" /\ nfeeds = 1 /\ pos = Len(input))
    => /\ result.exc = "none"
       /\ emitted = SingleShot(Wire(msg))

\* C17 as stated: a valid message whose line terminators are all CR LF,
\* sent in one chunk with LF or with CR in place of every CR LF, queues
\* the very events of the message as it was.
SameEventsAnyEol ==
  (nfeeds = 1 /\ pos = Len(input))
    => emitted = SingleShot(Wire(msg))

\* C17: line-ending agnosticism.  A valid message whose line terminators
\* are all CR LF, sent in one chunk with LF or with CR in place of every
\* CR LF, queues the events of the message as it was, but for the bytes of
\* each PartData, in which the line terminators inside the body are
\* replaced as they were in the message.
LineEndingAgnostic ==
  (nfeeds = 1 /\ pos = Len(input))
    => /\ result.exc = "none"
       /\ emitted = WithEol(SingleShot(Wire(msg)), msg.eol)

\* witness of C17: a message with a body of two lines was parsed to
\* FINISHED in one chunk, every line ended by CR
ParsedWithCR ==
  /\ nfeeds = 1 /\ pos = Len(input) /\ state = "FINISHED"
  /\ msg.eol = <<CR>>
  /\ \E i \in 1..Len(emitted) :
        emitted[i].type = "PartData" /\ emitted[i].raw = <<"a", CR, "b">>

\* the last option of opts whose key in lower case is k
LastOption(opts, k) ==
  opts[CHOOSE i \in 1..Len(opts) :
         /\ Lower(opts[i].key) = k
         /\ \A j \in (i + 1)..Len(opts) : Lower(opts[j].key) # k]

\* C18: parse_options_header returns as principal token the text before
\* the first ";", or the whole value, in lower case and without white
\* space around it, whether or not options follow; the option keys are in
\* lower case and a key given twice keeps its later value.
PrincipalAndKeys ==
  result.op = "parse_options_header" =>
    /\ result.ret.content_type = Principal(HeaderText(result.arg))
    /\ DOMAIN result.ret.options =
         {Lower(result.arg.opts[i].key) : i \in 1..Len(result.arg.opts)}
    /\ \A k \in DOMAIN result.ret.options :
         result.ret.options[k] =
           ParseOptionsHeader(
             HeaderText([principal |-> <<"f">>,
                         opts |-> <<LastOption(result.arg.opts, k)>>])
           ).options[k]

\* a value between double quotes
IsQuoted(val) == Len(val) >= 2 /\ Head(val) = DQ /\ val[Len(val)] = DQ

\* the value of a quoted option: the quotes dropped; for filename, the
\* path up to the last backslash dropped when the value starts like
\* "c:\" or with two backslashes; then \\ and \" undone
Unquoted(key, val) ==
  LET v == SubSeq(val, 2, Len(val) - 1)
      path == \/ (Len(v) >= 3 /\ SubSeq(v, 2, 3) = <<":", BS>>)
              \/ (Len(v) >= 2 /\ SubSeq(v, 1, 2) = <<BS, BS>>)
  IN Unescape(IF key = FILENAME /\ path THEN AfterLastBackslash(v) ELSE v)

\* C19: the full-path strip is applied to the value of the filename option
\* and to no other option: a quoted value of another key is unquoted and
\* unescaped, nothing more.
PathStripForFilenameOnly ==
  result.op = "parse_options_header" =>
    \A k \in DOMAIN result.ret.options :
       IsQuoted(LastOption(result.arg.opts, k).val) =>
         result.ret.options[k]
           = Unquoted(k, LastOption(result.arg.opts, k).val)

\* C20: parse_form_data on a POST or PUT request of type
\* multipart/form-data with a boundary and a well-formed CONTENT_LENGTH
\* raises nothing when strict is false, and nothing but MultipartError
\* when strict is true.
FormDataErrors ==
  (/\ result.op = "parse_form_data"
   /\ result.arg.REQUEST_METHOD \in {Some("POST"), Some("PUT"), Some("post")}
   /\ Principal(result.arg.CONTENT_TYPE) = MULTIPART_FORM_DATA
   /\ Contains(result.arg.CONTENT_TYPE, BOUNDARY \o <<"=", "X">>)
   /\ result.arg.CONTENT_LENGTH # Some(<<"f">>))
    => IF result.arg.strict THEN result.exc \in {"none", "MultipartError"}
       ELSE result.exc = "none"

\* C21: the line terminator before a boundary line belongs to the boundary.
\* When no byte of the terminator that closes the parts occurs in a body,
\* no PartData queued, under any chunking, holds a byte of that terminator.
ClosingTerminatorWithheld ==
  \A i \in 1..Len(emitted) :
     emitted[i].type = "PartData" =>
       \A j \in 1..Len(emitted[i].raw) :
          \A c \in 1..Len(msg.close) : emitted[i].raw[j] # msg.close[c]

\* witness of C21: a two-line body closed by LF was fed in several chunks
\* and queued whole, the CR between its lines included
TwoLinesClosed ==
  /\ state = "FINISHED"
  /\ nfeeds >= 2
  /\ msg.close = <<LF>>
  /\ msg.parts[1].body = <<"a", CR, "b">>
  /\ BodyOf(emitted, 1) = <<"a", CR, "b">>

\* the cuts of message m that fall inside the body of part k right after
\* the terminator of a body line, body bytes following: pairs of the cut
\* position and that terminator
CutsAfterBodyLine(m, k) ==
  LET body == m.parts[k].body
      start == ClosingBoundaryStart(m, k) - Len(CRLF) - Len(body)
  IN {<<start + i,
        IF body[i] = LF /\ i > 1 /\ body[i - 1] = CR THEN CRLF
        ELSE <<body[i]>>>> :
        i \in {j \in 1..(Len(body) - 1) :
                 /\ body[j] \in {CR, LF}
                 /\ ~(body[j] = CR /\ body[j + 1] = LF)}}

\* C22: a body line's terminator is withheld and emitted in front of the
\* next body line, also across feed calls.  When a chunk of a valid message
\* ended with the terminator of a body line and the next feed call queues a
\* PartData, the bytes of that PartData begin with the terminator.
TerminatorCarried ==
  [][\A k \in 1..Len(msg.parts) :
       \A cut \in CutsAfterBodyLine(msg, k) :
          (/\ Valid(msg)
           /\ pos = cut[1]
           /\ state = "BUILDING_BODY"
           /\ Len(emitted') > Len(emitted)
           /\ emitted'[Len(emitted) + 1].type = "PartData")
            => LET raw == emitted'[Len(emitted) + 1].raw
               IN /\ Len(raw) >= Len(cut[2])
                  /\ SubSeq(raw, 1, Len(cut[2])) = cut[2]]_vars

\* the lines of chunk end with an unterminated line of at least
\* len(separator) bytes that is no boundary line nor the beginning of the
\* terminator, and no line before it is a boundary line
EndsWithLongFragment(chunk) ==
  LET lines == Splitlines(chunk)
  IN /\ lines # <<>>
     /\ SeparateNewlines(lines[Len(lines)]).nl = <<>>
     /\ Len(lines[Len(lines)]) >= separator_len
     /\ SubSeq(lines[Len(lines)], 1, separator_len) # separator
     /\ \A i \in 1..Len(lines) :
           SeparateNewlines(lines[i]).l \notin {separator, terminator}

\* number of bytes of message m before the body of part k
BodyStart(m, k) ==
  ClosingBoundaryStart(m, k) - Len(CRLF) - Len(m.parts[k].body)

\* C23: in body-building, an unterminated trailing line at least as long as
\* the separator that is no boundary line is emitted as body data.  When
\* the bytes fed so far of a valid message end inside the body of a part
\* without Content-Length, with such a line, the feed call has returned and
\* the bytes queued for that part end with that line.
LongFragmentEmitted ==
  \A k \in 1..Len(msg.parts) :
     (/\ Valid(msg)
      /\ HeaderValue(msg.parts[k].hdrs, CONTENT_LENGTH) = <<>>
      /\ pos > BodyStart(msg, k)
      /\ pos <= BodyStart(msg, k) + Len(msg.parts[k].body)
      /\ EndsWithLongFragment(SubSeq(input, BodyStart(msg, k) + 1, pos)))
       => /\ ~hung
          /\ EndsWith(BodyOf(emitted, k),
                      Splitlines(SubSeq(input, BodyStart(msg, k) + 1, pos))
                        [Len(Splitlines(SubSeq(input, BodyStart(msg, k) + 1,
                                               pos)))])

RECURSIVE RawOf(_)
\* the bytes of the PartData events among evs
RawOf(evs) ==
  IF evs = <<>> THEN <<>>
  ELSE (IF Head(evs).type = "PartData" THEN Head(evs).raw ELSE <<>>)
       \o RawOf(Tail(evs))

\* C24: the held-back fragment.  When a feed call has returned in
\* BUILDING_BODY the carry-over is empty, and a fragment held in
\* last_partial_line is shorter than the separator, holds no line
\* terminator, is the end of the bytes fed so far, and is not among the
\* bytes the call queued: the PartData bytes it queued and the fragment
\* are together no more than the bytes the call had.  When a feed call has
\* returned in BUILDING_HEADERS or FINISHED no fragment is held.
HeldBackFragment ==
  [][(nfeeds' = nfeeds + 1 /\ ~hung') =>
       /\ state' = "BUILDING_BODY" =>
            /\ buffer' = <<>>
            /\ last_partial_line' # None =>
                 /\ Len(last_partial_line'[1]) < separator_len
                 /\ \A i \in 1..Len(last_partial_line'[1]) :
                       last_partial_line'[1][i] \notin {CR, LF}
                 /\ EndsWith(SubSeq(input, 1, pos'), last_partial_line'[1])
                 /\ Len(RawOf(SubSeq(emitted', Len(emitted) + 1,
                                     Len(emitted')))
                        \o last_partial_line'[1])
                      <= Len(Concat(last_partial_line) \o buffer)
                         + (pos' - pos)
       /\ state' \in {"BUILDING_HEADERS", "FINISHED"} =>
            last_partial_line' = None]_vars

\* witness of C24: a feed call that began with a fragment queued body data
\* and returned holding another fragment
FragmentHeldAgain ==
  /\ state = "BUILDING_BODY"
  /\ ~hung
  /\ nfeeds >= 3
  /\ last_partial_line = Some(<<"-", "-">>)
  /\ Count(emitted, "PartData") >= 1
  /\ msg.parts[1].body = <<"a", "b">>

\* the Part events among evs
PartEvents(evs) == SelectSeq(evs, LAMBDA e : e.type = "Part")

\* C25: header accumulation across chunks.  However a valid message is cut
\* into chunks, the k-th Part event queued has the headerlist of the k-th
\* Part event of the single-shot parse.
HeadersAccumulated ==
  Valid(msg) =>
    \A k \in 1..Len(PartEvents(emitted)) :
       /\ k <= Len(PartEvents(SingleShot(input)))
       /\ PartEvents(emitted)[k].headerlist
            = PartEvents(SingleShot(input))[k].headerlist

\* the text of the first non-empty line of bytes, <<>> when there is none
FirstLine(bytes) ==
  IF SkipBlank(Splitlines(bytes)) = <<>> THEN <<>>
  ELSE SeparateNewlines(Head(SkipBlank(Splitlines(bytes)))).l

\* C26: the start-of-part check.  A feed call made in BUILDING_HEADERS
\* whose first non-empty line, with or without its terminator, is at least
\* as long as the separator and is not the separator raises MalformedData
\* and does not keep the line in the carry-over.
StartOfPartCheck ==
  [][(/\ state = "BUILDING_HEADERS"
      /\ nfeeds' = nfeeds + 1
      /\ Len(FirstLine(buffer \o SubSeq(input, pos + 1, pos')))
           >= separator_len
      /\ FirstLine(buffer \o SubSeq(input, pos + 1, pos')) # separator)
       => /\ result'.exc = "MalformedData"
          /\ buffer' = <<>>]_vars

\* C27: the separator met in body-building is re-buffered.  When a feed
\* call made in BUILDING_BODY brings the separator line that closes part k
\* of a valid message and the whole header block of part k + 1, the call
\* raises no error and queues the Part event of part k + 1.
SeparatorRebuffered ==
  [][\A k \in 1..(Len(msg.parts) - 1) :
       (/\ Valid(msg)
        /\ state = "BUILDING_BODY"
        /\ closed = k
        /\ nfeeds' = nfeeds + 1
        /\ ~hung'
        /\ pos <= ClosingBoundaryStart(msg, k)
        /\ pos' >= BodyStart(msg, k + 1))
         => /\ result'.exc = "none"
            /\ closed' >= k + 1
            /\ \E i \in 1..Len(emitted') :
                  emitted'[i].type = "Part" /\ emitted'[i].part = k + 1]_vars

\* the Content-Length of the part whose header block was closed last, as
\* _construct_part reads it: None when that part has no such header
OwnContentLength ==
  LET content_length ==
        HeadersGet(PartEvents(emitted)[closed].headerlist, CONTENT_LENGTH)
  IN IF content_length = None THEN None
     ELSE Some(ParseInt(content_length[1]))

\* the number of bytes of s that are neither CR nor LF
LineBytes(s) == Len(SelectSeq(s, LAMBDA c : c \notin {CR, LF}))

\* C28: the part-size counters are per part.  In BUILDING_BODY
\* expected_part_size is the Content-Length of the part being built, unset
\* when it has none, and current_part_size counts the line bytes queued for
\* that part alone (nothing when no Content-Length is policed); in
\* BUILDING_HEADERS and FINISHED both counters are reset.
PartSizeCounters ==
  /\ state \in {"BUILDING_HEADERS", "FINISHED"} =>
       expected_part_size = None /\ current_part_size = 0
  /\ state = "BUILDING_BODY" =>
       /\ expected_part_size = OwnContentLength
       /\ current_part_size =
            IF OwnContentLength = None THEN 0
            ELSE LineBytes(BodyOf(emitted, closed))

\* witness of C28: the body of a second part without Content-Length was
\* queued after a first part with Content-Length: 1
SecondPartUnpoliced ==
  /\ state = "BUILDING_BODY"
  /\ closed = 2
  /\ HeaderValue(msg.parts[1].hdrs, CONTENT_LENGTH) = <<"1">>
  /\ HeaderValue(msg.parts[2].hdrs, CONTENT_LENGTH) = <<>>
  /\ BodyOf(emitted, 1) = <<"b">>
  /\ BodyOf(emitted, 2) = <<"a">>
  /\ expected_part_size = None

\* C29: observable states.  When a feed call returns normally the state
\* is BUILDING_HEADERS, BUILDING_BODY or FINISHED, and the last event the
\* call queued is FINISHED when the state is FINISHED and NEED_DATA
\* otherwise.
ObservableStates ==
  [][(nfeeds' = nfeeds + 1 /\ ~hung' /\ result'.exc = "none") =>
       /\ state' \in {"BUILDING_HEADERS", "BUILDING_BODY", "FINISHED"}
       /\ Len(emitted') > Len(emitted)
       /\ emitted'[Len(emitted')] =
            IF state' = "FINISHED" THEN FINISHED ELSE NEED_DATA]_vars

\* witness of C29: feed calls have returned in BUILDING_HEADERS or
\* BUILDING_BODY with NEED_DATA, and the last one in FINISHED with FINISHED
ReturnedInEachState ==
  /\ state = "FINISHED"
  /\ ~hung
  /\ result = [op |-> "recv", exc |-> "none", ret |-> <<>>]
  /\ nfeeds = 3
  /\ Count(emitted, "NEED_DATA") = 2
  /\ emitted[Len(emitted)] = FINISHED

\* C30: a MalformedData raised by a feed call inside a "with parser:" block
\* reaches the caller of the block as MalformedData.  The block ends with
\* __exit__ while the error is in flight; an exception raised by __exit__
\* takes the place of the one in flight, and otherwise the one in flight
\* goes on to the caller.
MalformedDataReachesCaller ==
  [][(/\ result.op \in {"recv", "parse"}
      /\ result.exc = "MalformedData"
      /\ result'.op = "exit")
       => (IF result'.exc = "none" THEN result.exc ELSE result'.exc)
            = "MalformedData"]_vars

\* the attributes of a Part that the parser sets
PartAttributes(part) ==
  <<part.headerlist, part.disposition, part.name, part.filename,
    part.content_type, part.charset>>

\* C31: emitted Parts are frozen.  Every Part event is an object of its own
\* whose headerlist, disposition, name, filename, content_type and charset
\* are still what they were when the event was queued, whatever was fed
\* since; and the object that current_part refers to, if any, is none of
\* the queued ones.
EmittedPartsFrozen ==
  /\ Len(objects.queued) = Len(PartEvents(emitted))
  /\ \A k \in 1..Len(objects.queued) :
        /\ objects.queued[k] \in 1..Len(objects.made)
        /\ PartAttributes(objects.made[objects.queued[k]])
             = PartAttributes(PartEvents(emitted)[k])
        /\ \A j \in 1..(k - 1) : objects.queued[j] # objects.queued[k]
        /\ current_part # None => current_part[1].id # objects.queued[k]

\* witness of C31: the Part of the first header block was queued by one feed
\* call, and later calls built and queued the Part of a second block with
\* other headers
SecondPartBuiltLater ==
  /\ objects.queued = <<1, 2>>
  /\ objects.made[1].headerlist # objects.made[2].headerlist
  /\ \E i, j, l \in 1..Len(emitted) :
        /\ i < j /\ j < l
        /\ emitted[i].type = "Part"
        /\ emitted[j].type = "NEED_DATA"
        /\ emitted[l].type = "Part"
  /\ state = "FINISHED"

====
